---- MODULE Spec2Model ----
(***************************************************************************)
(* Model of the data-acquisition core of src/crawler.py (class WeiboSpider):*)
(* the card parser (parse_weibo, parse_mblog) and the paginated fetch loop  *)
(* (get_weibo_data) with its dedup and three-empty-pages stop heuristic.    *)
(*                                                                         *)
(* JSON values are tagged records: [t |-> "null"], [t |-> "int", v |-> n],  *)
(* [t |-> "str", v |-> chunks], [t |-> "list", v |-> <<...>>] and           *)
(* [t |-> "dict", v |-> f] with f a function from key strings to JSON       *)
(* values (DOMAIN f is the set of keys present).  A Python string is the    *)
(* sequence of its chunks, so that concatenation, substring tests on the    *)
(* markers and the replacement of newlines are computed, not assumed.       *)
(* The markers "fenzhongqian" and "xiaoshiqian" stand for the source's      *)
(* literals of crawler.py line 108 (minutes ago / hours ago).               *)
(***************************************************************************)
EXTENDS Integers, Sequences, FiniteSets, TLC

VARIABLES
    pc,                 \* position in get_weibo_data
    page_num,           \* argument page_num (max_pages)
    page,               \* loop variable of line 154 (0 before the first pass)
    all_data,           \* accumulator, line 146
    consecutive_empty,  \* line 153
    new_posts,          \* line 173
    cards,              \* cards of the page being processed, line 167
    idx,                \* index of the next card of the loop of line 174
    result,             \* rows of the returned DataFrame, line 205
    now,                \* reading of the wall clock (datetime.now())
    requested,          \* history: page numbers passed to requests.get
    lastOutcome,        \* history: how the last page request ended
    lastResp,           \* history: the response to the last request
    lastAct,            \* history: what the last card step logged
    accBefore,          \* history: all_data when the last request was made
    onlyTransient,      \* history: every request so far failed transiently
    seen,               \* history: bids of parsed records, first-seen order
    hist,               \* history: per processed page, whether it added 0
    delayed,            \* history: time.sleep(2) ran since the last request
    pin, pm,            \* parser run: the card and the mblog given
    pout, dout,         \* parser run: results for pin and for Direct(pm)
    pnow, dnow,         \* parser run: clock readings of the two calls
    mout, mnow          \* parser run: result of parse_mblog(pm), its clock

fetchVars == <<pc, page_num, page, all_data, consecutive_empty, new_posts,
               cards, idx, result, requested, lastOutcome, lastResp,
               lastAct, accBefore, onlyTransient, seen, hist, delayed>>
parseVars == <<pin, pm, pout, dout, pnow, dnow, mout, mnow>>
vars == <<fetchVars, now, parseVars>>

-----------------------------------------------------------------------------
(* Bounds of the model *)
MaxPages == 5
MaxClock == 1
MaxGroup == 2

-----------------------------------------------------------------------------
(* JSON / Python values *)
Null == [t |-> "null"]
JInt(n) == [t |-> "int", v |-> n]
JStr(s) == [t |-> "str", v |-> s]
JList(l) == [t |-> "list", v |-> l]
JDict(d) == [t |-> "dict", v |-> d]
EmptyStr == JStr(<<>>)
EmptyDict == JDict(<<>>)
EmptyList == JList(<<>>)

\* An exception travelling up from a call (any subclass of Exception).
Raised == [t |-> "raise"]

IsDict(j) == j.t = "dict"
JEq(a, b) == a.t = b.t /\ a = b

\* key in d
HasKey(d, k) == k \in DOMAIN d.v
\* d.get(k, default) on a dict d
Get(d, k, default) == IF HasKey(d, k) THEN d.v[k] ELSE default

\* Python truth value of a JSON value
Truthy(j) ==
    CASE j.t = "null" -> FALSE
      [] j.t = "int" -> j.v # 0
      [] j.t = "str" -> j.v # <<>>
      [] j.t = "list" -> j.v # <<>>
      [] j.t = "dict" -> DOMAIN j.v # {}

\* str(x) / f"{x}" for the kinds of value the inputs use (str, None, int)
PyStr(j) ==
    CASE j.t = "str" -> j.v
      [] j.t = "null" -> <<"None">>
      [] j.t = "int" -> <<ToString(j.v)>>

\* substring test `marker in s` on a string of chunks
Contains(s, marker) == \E i \in 1..Len(s) : s[i] = marker

\* s.replace('\n', ' ')
ReplaceNewlines(s) == [i \in 1..Len(s) |-> IF s[i] = "\n" THEN " " ELSE s[i]]

\* datetime.now().strftime(...) at clock reading n
ClockText(n) == <<"now+" \o ToString(n)>>

\* pd.to_datetime(s).strftime('%Y-%m-%d %H:%M:%S') on the strings the inputs
\* use; any other string does not parse (ValueError) or is NaT.
DateTable ==
    [x \in {"Mon Jan 02 10:00:00 +0800 2023", "2023-01-02 10:00:00"} |->
        "2023-01-02 10:00:00"]
    @@ [x \in {"2023-01-02"} |-> "2023-01-02 00:00:00"]
CanParseDate(s) == Len(s) = 1 /\ s[1] \in DOMAIN DateTable
to_datetime_strftime(s) == <<DateTable[s[1]]>>

\* lines 108-111 on a list: `marker in created_at` compares the marker with
\* the items and does not raise; pd.to_datetime of a list of date strings is
\* a DatetimeIndex, whose strftime is an Index of strings (not a str)
normalize_created_at_list(raw, n) ==
    IF \E i \in 1..Len(raw.v) :
          raw.v[i] \in {JStr(<<"fenzhongqian">>), JStr(<<"xiaoshiqian">>)}
    THEN JStr(ClockText(n))
    ELSE IF \A i \in 1..Len(raw.v) :
               raw.v[i].t = "str" /\ CanParseDate(raw.v[i].v)
    THEN [t |-> "index",
          v |-> [i \in 1..Len(raw.v) |->
                    JStr(to_datetime_strftime(raw.v[i].v))]]
    ELSE JStr(PyStr(raw))

\* lines 106-113: created_at normalisation; never raises
normalize_created_at(raw, n) ==
    IF raw.t = "list" THEN normalize_created_at_list(raw, n)
    ELSE IF raw.t # "str" THEN JStr(PyStr(raw))
    ELSE IF Contains(raw.v, "fenzhongqian") \/ Contains(raw.v, "xiaoshiqian")
         THEN JStr(ClockText(n))
    ELSE IF CanParseDate(raw.v) THEN JStr(to_datetime_strftime(raw.v))
    ELSE JStr(PyStr(raw))

compose_text_original_first(mblog) ==
    LET text == Get(mblog, "text", EmptyStr) IN
    IF HasKey(mblog, "retweeted_status")
    THEN LET retweet_status == mblog.v["retweeted_status"] IN
         IF ~IsDict(retweet_status) THEN Raised
         ELSE JStr(PyStr(Get(retweet_status, "text", EmptyStr))
                   \o <<" // ">> \o PyStr(text))
    ELSE text
\* lines 93-103: text and repost composition; Raised when retweeted_status
\* is not a dict
compose_text(mblog) ==
    LET text == Get(mblog, "text", EmptyStr) IN
    IF HasKey(mblog, "retweeted_status")
    THEN LET retweet_status == mblog.v["retweeted_status"] IN
         IF ~IsDict(retweet_status) THEN Raised
         ELSE JStr(PyStr(text) \o <<" // ">>
                   \o PyStr(Get(retweet_status, "text", EmptyStr)))
    ELSE text

\* lines 91-127 without the handler: a record, or Raised
parse_mblog_try(mblog, n) ==
    IF ~IsDict(mblog) THEN Raised
    ELSE LET text == compose_text(mblog)
             user == Get(mblog, "user", EmptyDict)
         IN
         IF text = Raised \/ text.t # "str" \/ ~IsDict(user) THEN Raised
         ELSE [id |-> JStr(PyStr(Get(mblog, "id", EmptyStr))),
               bid |-> Get(mblog, "bid", EmptyStr),
               created_at |->
                   normalize_created_at(Get(mblog, "created_at", EmptyStr), n),
               text |-> JStr(ReplaceNewlines(text.v)),
               is_retweet |->
                   IF HasKey(mblog, "retweeted_status")
                   THEN JInt(1) ELSE JInt(0),
               reposts_count |-> Get(mblog, "reposts_count", JInt(0)),
               comments_count |-> Get(mblog, "comments_count", JInt(0)),
               attitudes_count |-> Get(mblog, "attitudes_count", JInt(0)),
               user_name |-> Get(user, "screen_name", EmptyStr),
               user_followers |-> Get(user, "followers_count", JInt(0)),
               source |-> Get(mblog, "source", EmptyStr)]

\* lines 128-130: what parse_mblog does with an exception of its body
parse_mblog_except(r) == IF r = Raised THEN Null ELSE r

\* parse_mblog, lines 68-130
parse_mblog(mblog, n) == parse_mblog_except(parse_mblog_try(mblog, n))

RECURSIVE scan_tries_next(_, _, _)
scan_tries_next(items, i, n) ==
    IF i > Len(items) THEN Null
    ELSE IF ~IsDict(items[i]) THEN Raised
    ELSE IF JEq(Get(items[i], "card_type", Null), JInt(9))
            /\ Truthy(Get(items[i], "mblog", EmptyDict))
            /\ parse_mblog(Get(items[i], "mblog", EmptyDict), n) # Null
         THEN parse_mblog(Get(items[i], "mblog", EmptyDict), n)
         ELSE scan_tries_next(items, i + 1, n)
scan_first_item_only(items, i, n) ==
    IF i > Len(items) THEN Null
    ELSE IF ~IsDict(items[i]) THEN Raised
    ELSE IF JEq(Get(items[i], "card_type", Null), JInt(9))
            /\ Truthy(Get(items[i], "mblog", EmptyDict))
         THEN parse_mblog(Get(items[i], "mblog", EmptyDict), n)
         ELSE Null
\* lines 53-57: the scan of card_group from item i on; falls through to the
\* `return None` of line 63 when no item returns
RECURSIVE scan_card_group(_, _, _)
scan_card_group(items, i, n) ==
    IF i > Len(items) THEN Null
    ELSE LET item == items[i] IN
         IF ~IsDict(item) THEN Raised
         ELSE IF JEq(Get(item, "card_type", Null), JInt(9))
                 /\ Truthy(Get(item, "mblog", EmptyDict))
              THEN parse_mblog(Get(item, "mblog", EmptyDict), n)
              ELSE scan_card_group(items, i + 1, n)

\* `for x in j` / len(j): the items iterated, or a TypeError (None and
\* numbers are not iterable; a string iterates its characters, a dict its
\* keys, which are strings too)
IterItems(j) ==
    CASE j.t = "list" -> [ok |-> TRUE, items |-> j.v]
      [] j.t = "str" ->
            [ok |-> TRUE, items |-> [i \in 1..Len(j.v) |-> JStr(<<j.v[i]>>)]]
      [] j.t = "dict" ->
            [ok |-> TRUE,
             items |-> IF DOMAIN j.v = {} THEN <<>> ELSE <<JStr(<<"key">>)>>]
      [] OTHER -> [ok |-> FALSE, items |-> <<>>]

\* lines 50-63 without the handler
parse_weibo_try(card, n) ==
    IF ~IsDict(card) THEN Raised
    ELSE IF JEq(Get(card, "card_type", Null), JInt(11))
         THEN LET it == IterItems(Get(card, "card_group", EmptyList)) IN
              IF ~it.ok THEN Raised ELSE scan_card_group(it.items, 1, n)
    ELSE IF JEq(Get(card, "card_type", Null), JInt(9))
         THEN LET mblog == Get(card, "mblog", EmptyDict) IN
              IF Truthy(mblog) THEN parse_mblog(mblog, n) ELSE Null
    ELSE Null

parse_weibo_except_propagates(r) == r
\* lines 64-66: what parse_weibo does with an exception of its body
parse_weibo_except(r) == IF r = Raised THEN Null ELSE r

\* parse_weibo, lines 37-66
parse_weibo(card, n) == parse_weibo_except(parse_weibo_try(card, n))

-----------------------------------------------------------------------------
(* Inputs: mblogs, cards and page responses the runs draw from *)
S(x) == JStr(<<x>>)

M1 == JDict([id |-> JInt(101), bid |-> S("b1"), text |-> S("A"),
             created_at |-> S("2023-01-02 10:00:00"),
             reposts_count |-> JInt(1),
             user |-> JDict([screen_name |-> S("u1"),
                             followers_count |-> JInt(5)])])
\* the post of M1 as a later, overlapping page reports it
M1x == JDict([id |-> JInt(101), bid |-> S("b1"), text |-> S("A"),
              created_at |-> S("2023-01-02 10:00:00"),
              reposts_count |-> JInt(2)])
M2 == JDict([id |-> S("102"), bid |-> S("b2"),
             text |-> JStr(<<"A", "\n", "A">>),
             created_at |-> S("Mon Jan 02 10:00:00 +0800 2023"),
             retweeted_status |-> JDict([text |-> S("B")])])
M3 == JDict([bid |-> S("b3"), text |-> S("C"),
             created_at |-> JStr(<<"5", "fenzhongqian">>)])
MEmptyBid == JDict([bid |-> EmptyStr, text |-> S("E"),
                    created_at |-> S("zuotian 10:00")])
MNoBid == JDict([text |-> S("N"), created_at |-> Null])
MNullText == JDict([bid |-> S("b4"), text |-> Null])
MBadRetweet == JDict([bid |-> S("b5"), text |-> S("A"),
                      retweeted_status |-> Null])

\* mblogs that are non-empty dicts
DictMblogs == {M1, M1x, M2, M3, MEmptyBid, MNoBid, MNullText, MBadRetweet}
\* values found under the key mblog
MblogValues == DictMblogs \cup {EmptyDict, Null, S("x")}

Direct(m) == JDict([card_type |-> JInt(9), mblog |-> m])
Composite(group) == JDict([card_type |-> JInt(11), card_group |-> group])

\* items of a card_group
SubCards ==
    {Direct(m) : m \in {M1, M2, M3, MNullText, EmptyDict, S("x")}}
    \cup {JDict([card_type |-> JInt(9)]),
          JDict([card_type |-> JInt(8), mblog |-> M1]),
          S("x")}

RECURSIVE SeqsUpTo(_, _)
SeqsUpTo(set, n) ==
    IF n = 0 THEN {<<>>}
    ELSE LET shorter == SeqsUpTo(set, n - 1) IN
         shorter \cup {Append(q, x) : q \in shorter, x \in set}

\* cards given to the parser
ParserCards ==
    {Composite(JList(g)) : g \in SeqsUpTo(SubCards, MaxGroup)}
    \cup {Direct(m) : m \in MblogValues}
    \cup {JDict([card_type |-> JInt(9)]),
          JDict([card_type |-> JInt(11)]),
          JDict([card_type |-> JInt(11), card_group |-> Null]),
          JDict([card_type |-> JInt(11), card_group |-> S("x")]),
          JDict([card_type |-> JInt(8), mblog |-> M1]),
          JDict([card_type |-> S("9"), mblog |-> M1]),
          JDict([mblog |-> M1]),
          EmptyDict, Null, S("x"), JInt(9), JList(<<Direct(M1)>>)}

\* page responses: requests.get raising, response.json() raising, or a body
OkBody(cs) == [net |-> "ok",
               json |-> JDict([ok |-> JInt(1),
                               data |-> JDict([cards |-> JList(cs)])])]
Responses ==
    {OkBody(<<Direct(M1), Composite(JList(<<Direct(M2)>>))>>),
     OkBody(<<Direct(M1x), Direct(M3)>>),
     OkBody(<<Direct(M2), Composite(JList(<<Direct(M2), Direct(M3)>>))>>),
     OkBody(<<Direct(MEmptyBid), Direct(MNoBid)>>),
     OkBody(<<Direct(MNullText), JDict([card_type |-> JInt(8)]),
              Direct(M1)>>),
     OkBody(<<S("x"), Direct(M1)>>),
     OkBody(<<>>),
     [net |-> "ok", json |-> JDict([ok |-> JInt(1), data |-> EmptyDict])],
     [net |-> "ok", json |-> JDict([ok |-> JInt(1), data |-> Null])],
     [net |-> "ok", json |-> JDict([ok |-> JInt(1)])],
     [net |-> "ok",
      json |-> JDict([ok |-> JInt(0),
                      data |-> JDict([cards |-> JList(<<Direct(M3)>>)])])],
     [net |-> "ok", json |-> JDict([msg |-> S("x")])],
     [net |-> "ok", json |-> JList(<<>>)],
     [net |-> "neterr", json |-> Null],
     [net |-> "badjson", json |-> Null]}

-----------------------------------------------------------------------------
(* get_weibo_data, lines 132-205 *)

\* line 190: pages without a new post that end the crawl
StopAfter == 3

\* line 166: json_data.get('ok') == 1 and 'data' in json_data
page_accepts_data_only(json_data) == HasKey(json_data, "data")
page_accepts(json_data) ==
    JEq(Get(json_data, "ok", Null), JInt(1)) /\ HasKey(json_data, "data")

\* lines 163-171 and 197-199 for one response: the request and its decoding
\* raise, or the body is refused (break), or the page's cards are returned
page_try(resp) ==
    IF resp.net # "ok" THEN [kind |-> "raise", cards |-> <<>>]
    ELSE LET json_data == resp.json IN
         IF ~IsDict(json_data) THEN [kind |-> "raise", cards |-> <<>>]
         ELSE IF page_accepts(json_data)
              THEN LET data == json_data.v["data"] IN
                   IF ~IsDict(data) THEN [kind |-> "raise", cards |-> <<>>]
                   ELSE LET it == IterItems(Get(data, "cards", EmptyList)) IN
                        IF ~it.ok
                           \/ \E i \in 1..Len(it.items) : ~IsDict(it.items[i])
                        THEN [kind |-> "raise", cards |-> <<>>]
                        ELSE [kind |-> "cards", cards |-> it.items]
              ELSE [kind |-> "break", cards |-> <<>>]

on_page_error_retries(p, ce) ==
    [pc |-> "loop", page |-> p - 1, consecutive_empty |-> ce]
on_page_error_counts(p, ce) ==
    [pc |-> "loop", page |-> p, consecutive_empty |-> ce + 1]
on_page_error_raises(p, ce) ==
    [pc |-> "error", page |-> p, consecutive_empty |-> ce]
\* lines 201-203: `except Exception: continue` leaves the loop's variables as
\* they are and goes to the next value of the range
on_page_error(p, ce) == [pc |-> "loop", page |-> p, consecutive_empty |-> ce]

bid_seen_skip_empty(acc, weibo_data) ==
    /\ Truthy(weibo_data.bid)
    /\ \E i \in 1..Len(acc) : JEq(acc[i].bid, weibo_data.bid)
bid_seen_last_only(acc, weibo_data) ==
    acc # <<>> /\ JEq(acc[Len(acc)].bid, weibo_data.bid)
bid_seen_by_id(acc, weibo_data) ==
    \E i \in 1..Len(acc) : JEq(acc[i].id, weibo_data.id)
\* line 179: any(post['bid'] == weibo_data['bid'] for post in all_data)
bid_seen(acc, weibo_data) ==
    \E i \in 1..Len(acc) : JEq(acc[i].bid, weibo_data.bid)

append_record_front(acc, weibo_data) == <<weibo_data>> \o acc
\* line 180: all_data.append(weibo_data)
append_record(acc, weibo_data) == Append(acc, weibo_data)

next_consecutive_empty_no_reset(ce, np) ==
    IF np = 0
    THEN [value |-> ce + 1, stop |-> ce + 1 >= StopAfter]
    ELSE [value |-> ce, stop |-> FALSE]
next_consecutive_empty_late(ce, np) ==
    IF np = 0
    THEN [value |-> ce + 1, stop |-> ce + 1 > StopAfter]
    ELSE [value |-> 0, stop |-> FALSE]
\* lines 188-194: the counter after a processed page, and whether to break
next_consecutive_empty(ce, np) ==
    IF np = 0
    THEN [value |-> ce + 1, stop |-> ce + 1 >= StopAfter]
    ELSE [value |-> 0, stop |-> FALSE]

after_page_no_delay_when_empty(stop, np) ==
    IF stop THEN "return" ELSE IF np = 0 THEN "loop" ELSE "sleep"
\* lines 190-196: after the counter is updated, break, or go on to the
\* time.sleep(2) of line 196
after_page(stop, np) == IF stop THEN "return" ELSE "sleep"

\* a response that is a network failure, a JSON decode failure or a body of
\* unexpected shape
TransientResp(resp) ==
    \/ resp.net \in {"neterr", "badjson"}
    \/ resp.net = "ok" /\ ~IsDict(resp.json)
    \/ /\ resp.net = "ok"
       /\ IsDict(resp.json)
       /\ JEq(Get(resp.json, "ok", Null), JInt(1))
       /\ HasKey(resp.json, "data")
       /\ ~IsDict(resp.json.v["data"])

InSeq(x, q) == \E i \in 1..Len(q) : q[i] = x

FetchInit ==
    /\ pc = "loop"
    /\ page_num \in -1..MaxPages
    /\ page = 0
    /\ all_data = <<>>
    /\ consecutive_empty = 0
    /\ new_posts = 0
    /\ cards = <<>>
    /\ idx = 1
    /\ result = <<>>
    /\ requested = <<>>
    /\ lastOutcome = "none"
    /\ lastResp = [net |-> "none", json |-> Null]
    /\ lastAct = "none"
    /\ accBefore = <<>>
    /\ onlyTransient = TRUE
    /\ seen = <<>>
    /\ hist = <<>>
    /\ delayed = FALSE

ParseIdle ==
    /\ pin = Null
    /\ pm = Null
    /\ pout = Raised
    /\ dout = Raised
    /\ pnow = -1
    /\ dnow = -1
    /\ mout = Null
    /\ mnow = -1

Init == FetchInit /\ now = 0 /\ ParseIdle

\* lines 154-171, 197-203: the next pass of the loop requests page + 1
Request ==
    /\ pc = "loop"
    /\ page < page_num
    /\ \E resp \in Responses :
        LET o == page_try(resp)
            h == on_page_error(page + 1, consecutive_empty)
        IN
        /\ requested' = Append(requested, page + 1)
        /\ lastOutcome' = o.kind
        /\ lastResp' = resp
        /\ accBefore' = all_data
        /\ onlyTransient' = (onlyTransient /\ TransientResp(resp))
        /\ delayed' = FALSE
        /\ lastAct' = "none"
        /\ CASE o.kind = "raise" ->
                  /\ pc' = h.pc
                  /\ page' = h.page
                  /\ consecutive_empty' = h.consecutive_empty
                  /\ UNCHANGED <<cards, idx, new_posts>>
             [] o.kind = "break" ->
                  /\ pc' = "return"
                  /\ page' = page + 1
                  /\ UNCHANGED <<consecutive_empty, cards, idx, new_posts>>
             [] o.kind = "cards" ->
                  /\ pc' = "cards"
                  /\ page' = page + 1
                  /\ cards' = o.cards
                  /\ idx' = 1
                  /\ new_posts' = 0
                  /\ UNCHANGED consecutive_empty
    /\ UNCHANGED <<page_num, all_data, result, seen, hist, now, parseVars>>

\* lines 174-184: one pass of the loop over the page's cards
ProcessCard ==
    /\ pc = "cards"
    /\ idx <= Len(cards)
    /\ LET weibo_data == parse_weibo(cards[idx], now)
           h == on_page_error(page, consecutive_empty)
       IN
       IF weibo_data = Raised
       THEN /\ pc' = h.pc
            /\ page' = h.page
            /\ consecutive_empty' = h.consecutive_empty
            /\ lastOutcome' = "raise"
            /\ lastAct' = "none"
            /\ UNCHANGED <<all_data, new_posts, idx, seen>>
       ELSE /\ idx' = idx + 1
            /\ UNCHANGED <<pc, page, consecutive_empty, lastOutcome>>
            /\ IF weibo_data # Null
               THEN /\ seen' = IF InSeq(weibo_data.bid, seen) THEN seen
                               ELSE Append(seen, weibo_data.bid)
                    /\ IF ~bid_seen(all_data, weibo_data)
                       THEN /\ all_data' = append_record(all_data, weibo_data)
                            /\ new_posts' = new_posts + 1
                            /\ lastAct' = "new"
                       ELSE /\ lastAct' = "dup"
                            /\ UNCHANGED <<all_data, new_posts>>
               ELSE /\ lastAct' = "absent"
                    /\ UNCHANGED <<all_data, new_posts, seen>>
    /\ UNCHANGED <<page_num, cards, result, requested, lastResp,
                   accBefore, onlyTransient, hist, delayed, now, parseVars>>

\* lines 186-194: the page's cards are done
EndPage ==
    /\ pc = "cards"
    /\ idx > Len(cards)
    /\ LET c == next_consecutive_empty(consecutive_empty, new_posts) IN
       /\ consecutive_empty' = c.value
       /\ pc' = after_page(c.stop, new_posts)
    /\ hist' = Append(hist, Len(all_data) = Len(accBefore))
    /\ UNCHANGED <<page_num, page, all_data, new_posts, cards, idx, result,
                   requested, lastOutcome, lastResp, lastAct, accBefore, onlyTransient,
                   seen, delayed, now, parseVars>>

\* line 196: time.sleep(2)
Sleep ==
    /\ pc = "sleep"
    /\ pc' = "loop"
    /\ delayed' = TRUE
    /\ UNCHANGED <<page_num, page, all_data, consecutive_empty, new_posts,
                   cards, idx, result, requested, lastOutcome, lastResp,
                   lastAct, accBefore, onlyTransient, seen, hist, now, parseVars>>

\* line 154: the range is exhausted
LoopExit ==
    /\ pc = "loop"
    /\ page >= page_num
    /\ pc' = "return"
    /\ UNCHANGED <<page_num, page, all_data, consecutive_empty, new_posts,
                   cards, idx, result, requested, lastOutcome, lastResp,
                   lastAct, accBefore, onlyTransient, seen, hist, delayed, now,
                   parseVars>>

\* line 205: return pd.DataFrame(all_data), one row per record, in order
Return ==
    /\ pc = "return"
    /\ result' = all_data
    /\ pc' = "returned"
    /\ UNCHANGED <<page_num, page, all_data, consecutive_empty, new_posts,
                   cards, idx, requested, lastOutcome, lastResp, lastAct,
                   accBefore, onlyTransient, seen, hist, delayed, now, parseVars>>

\* the wall clock moves on while the crawl runs
Tick ==
    /\ pc \in {"loop", "cards", "sleep"}
    /\ now < MaxClock
    /\ now' = now + 1
    /\ UNCHANGED <<fetchVars, parseVars>>

Next == Request \/ ProcessCard \/ EndPage \/ Sleep \/ LoopExit \/ Return
        \/ Tick

Spec == Init /\ [][Next]_vars

-----------------------------------------------------------------------------
(* The card parser on its own: parse_weibo applied to a card pin, and to the *)
(* direct card that carries the mblog pm.                                   *)

FetchIdle ==
    /\ pc = "parser"
    /\ page_num = 0
    /\ page = 0
    /\ all_data = <<>>
    /\ consecutive_empty = 0
    /\ new_posts = 0
    /\ cards = <<>>
    /\ idx = 1
    /\ result = <<>>
    /\ requested = <<>>
    /\ lastOutcome = "none"
    /\ lastResp = [net |-> "none", json |-> Null]
    /\ lastAct = "none"
    /\ accBefore = <<>>
    /\ onlyTransient = TRUE
    /\ seen = <<>>
    /\ hist = <<>>
    /\ delayed = FALSE

ParseInit ==
    /\ FetchIdle
    /\ now = 0
    /\ pin \in ParserCards
    /\ pm \in DictMblogs
    /\ pout = Null
    /\ dout = Null
    /\ pnow = -1
    /\ dnow = -1
    /\ mout = Null
    /\ mnow = -1

\* the caller's `weibo_data = self.parse_weibo(card)` on pin
ParseCard ==
    /\ pc = "parser"
    /\ pnow = -1
    /\ pout' = parse_weibo(pin, now)
    /\ pnow' = now
    /\ UNCHANGED <<fetchVars, now, pin, pm, dout, dnow, mout, mnow>>

\* the same call on the direct card (card_type 9) carrying pm
ParseDirect ==
    /\ pc = "parser"
    /\ dnow = -1
    /\ dout' = parse_weibo(Direct(pm), now)
    /\ dnow' = now
    /\ UNCHANGED <<fetchVars, now, pin, pm, pout, pnow, mout, mnow>>

\* the wall clock moves on between the calls
ParseTick ==
    /\ pc = "parser"
    /\ now < MaxClock
    /\ now' = now + 1
    /\ UNCHANGED <<fetchVars, parseVars>>

ParseNext == ParseCard \/ ParseDirect \/ ParseTick

ParseSpec == ParseInit /\ [][ParseNext]_vars

-----------------------------------------------------------------------------
(* Properties *)

NoDupBids(q) ==
    \A i, j \in 1..Len(q) : i # j => ~JEq(q[i].bid, q[j].bid)
Bids(q) == [i \in 1..Len(q) |-> q[i].bid]
IsPrefix(a, b) == Len(a) <= Len(b) /\ \A i \in 1..Len(a) : a[i] = b[i]
Stopped == pc \in {"return", "returned"}
\* a step of the loop over the cards that handled cards[idx]
CardStep == pc = "cards" /\ idx' = idx + 1

\* C1: in every state of a fetch run, and in the returned table, no two
\* records have the same bid; a duplicate is skipped and the loop over the
\* cards goes on, nothing is raised.
C1_UniqueBids ==
    /\ NoDupBids(all_data)
    /\ NoDupBids(result)
    /\ pc # "error"
    /\ lastAct = "dup" => lastOutcome = "cards"
\* a card repeating a bid was met, with two records already kept
C1_Witness == lastAct = "dup" /\ Len(all_data) >= 2

\* the last three processed pages each left the accumulator as it was
ThreeZeroPages ==
    /\ Len(hist) >= StopAfter
    /\ \A k \in 0..(StopAfter - 1) : hist[Len(hist) - k]

\* C2: once three consecutive processed pages have each added no record,
\* the loop has stopped (it leaves for the return and requests nothing
\* more), whatever page_num is.
C2_StopAfterThreeEmptyPages ==
    ThreeZeroPages => Stopped /\ Len(requested) = page
\* stopped by the heuristic before page_num, after overlapping pages
C2_Witness ==
    /\ ThreeZeroPages
    /\ pc = "returned"
    /\ page < page_num
    /\ Len(result) >= 1
    /\ consecutive_empty = StopAfter

\* a well-formed body that is refused: ok is not 1, or there is no data
NotOkResp(resp) ==
    /\ resp.net = "ok"
    /\ IsDict(resp.json)
    /\ \/ ~JEq(Get(resp.json, "ok", Null), JInt(1))
       \/ ~HasKey(resp.json, "data")

\* C3: after a refused body (ok != 1 or no data) the loop has ended: no card
\* of that page was handled, no later page is requested, and the table
\* returned is the accumulator as it was when the page was requested.
C3_HardStop ==
    NotOkResp(lastResp) =>
        /\ Stopped
        /\ lastAct = "none"
        /\ all_data = accBefore
        /\ Len(requested) = page
        /\ pc = "returned" => result = accBefore
\* a refused body that carries cards, after pages that added records
C3_Witness ==
    /\ NotOkResp(lastResp)
    /\ HasKey(lastResp.json, "data")
    /\ pc = "returned"
    /\ Len(result) >= 2
    /\ page < page_num

\* C4: a page whose request or decoding fails transiently leaves the
\* counter and the accumulator as they were and the loop at its head; the
\* next request, if any, is for the next page number (no retry), and the
\* loop ends after such a page only when the range is exhausted.
C4_TransientSkip ==
    /\ [][(requested' # requested /\ TransientResp(lastResp'))
            => /\ consecutive_empty' = consecutive_empty
               /\ all_data' = all_data
               /\ pc' = "loop"
               /\ page' = page + 1]_vars
    /\ [][requested' # requested
            => requested' = Append(requested, Len(requested) + 1)]_vars
    /\ [](TransientResp(lastResp) =>
            /\ pc \in {"loop", "return", "returned"}
            /\ Stopped => page >= page_num)
\* a transient failure met with the counter at 2 and pages left
C4_Witness ==
    /\ TransientResp(lastResp)
    /\ pc = "loop"
    /\ page < page_num
    /\ consecutive_empty = 2
    /\ all_data # <<>>

\* a body accepted by line 166 whose cards value is a list
OkWithCardList(resp) ==
    /\ resp.net = "ok"
    /\ IsDict(resp.json)
    /\ JEq(Get(resp.json, "ok", Null), JInt(1))
    /\ HasKey(resp.json, "data")
    /\ IsDict(resp.json.v["data"])
    /\ Get(resp.json.v["data"], "cards", EmptyList).t = "list"
PageOver == pc \in {"loop", "sleep", "return", "returned"}

\* C5: when an ok page is over, every card of it for which the parser
\* yields a record has its bid in the accumulator, whatever the other cards
\* of the page are (a card that is no dictionary included), and the loop was
\* not aborted.
C5_ItemIsolation ==
    (OkWithCardList(lastResp) /\ PageOver) =>
        /\ pc # "error"
        /\ \A i \in 1..Len(lastResp.json.v["data"].v["cards"].v) :
             LET r == parse_weibo(lastResp.json.v["data"].v["cards"].v[i], now)
             IN r # Null => \E k \in 1..Len(all_data) :
                               JEq(all_data[k].bid, r.bid)

\* C6: get_weibo_data never ends in an error: no exception leaves it, it is
\* at a position from which it goes on (the head of the loop, the cards of a
\* page, the delay, the return) or has returned; when every page failed
\* transiently the table returned is empty and page_num requests were made.
C6_NeverRaises ==
    /\ pc \in {"loop", "cards", "sleep", "return", "returned"}
    /\ (pc = "returned" /\ onlyTransient /\ page_num >= 0) =>
         result = <<>> /\ Len(requested) = page_num
\* every one of at least two pages failed, and an empty table came back
C6_Witness ==
    /\ pc = "returned"
    /\ onlyTransient
    /\ page_num >= 2
    /\ Len(requested) = page_num
    /\ result = <<>>

\* C7: a parsed record is appended if and only if no record of the whole
\* accumulator has its bid; new_posts is the number of records appended
\* during the page; the size is the number of distinct bids parsed so far.
C7_WholeAccumulatorDedup ==
    /\ [][CardStep =>
            LET r == parse_weibo(cards[idx], now) IN
            IF r # Null /\ ~\E i \in 1..Len(all_data) :
                               JEq(all_data[i].bid, r.bid)
            THEN all_data' = Append(all_data, r)
            ELSE all_data' = all_data]_vars
    /\ [](pc = "cards" => new_posts = Len(all_data) - Len(accBefore))
    /\ [](Len(all_data) = Len(seen))
\* a card dropped because an earlier page had its bid, after a new record
\* of the same page
C7_Witness ==
    /\ lastAct = "dup"
    /\ new_posts >= 1
    /\ \E i \in 1..Len(accBefore) :
         JEq(accBefore[i].bid, parse_weibo(cards[idx - 1], now).bid)

\* C8: the accumulator only grows at its end: in successive states the
\* earlier sequence is a prefix of the later one; the table returned is the
\* accumulator, and its bids are the parsed bids in first-seen order.
C8_AppendOnly ==
    /\ [][IsPrefix(all_data, all_data')]_vars
    /\ [](Bids(all_data) = seen)
    /\ [](pc = "returned" => result = all_data)
\* three records returned, gathered over more than one page
C8_Witness ==
    /\ pc = "returned"
    /\ Len(result) >= 3
    /\ Len(hist) >= 2

-----------------------------------------------------------------------------
(* Properties of the parser *)

IsComposite(c) ==
    /\ IsDict(c)
    /\ JEq(Get(c, "card_type", Null), JInt(11))
    /\ Get(c, "card_group", EmptyList).t = "list"
Group(c) == Get(c, "card_group", EmptyList).v
\* a sub-card of card_type 9 with a non-empty mblog
Eligible(item) ==
    /\ IsDict(item)
    /\ JEq(Get(item, "card_type", Null), JInt(9))
    /\ HasKey(item, "mblog")
    /\ Truthy(item.v["mblog"])
Carries(item, m) == Eligible(item) /\ JEq(item.v["mblog"], m)
BothParsed == pnow >= 0 /\ dnow >= 0

\* C9 as stated: a composite card whose card_group contains a sub-card of
\* card_type 9 carrying pm parses to the same result as the direct card
\* carrying pm.
C9_AnySubCard ==
    (BothParsed /\ IsComposite(pin)
     /\ \E i \in 1..Len(Group(pin)) : Carries(Group(pin)[i], pm))
        => pout = dout

\* the first eligible sub-card of the group carries m, after dicts only
FirstEligibleCarries(c, m) ==
    \E i \in 1..Len(Group(c)) :
        /\ Carries(Group(c)[i], m)
        /\ \A j \in 1..(i - 1) :
             IsDict(Group(c)[j]) /\ ~Eligible(Group(c)[j])

\* C9 (amended): a composite card whose first sub-card of card_type 9 with a
\* non-empty mblog carries pm, every item before it being a dictionary,
\* parses to the same result as the direct card carrying pm, the two calls
\* reading the same clock.
C9_FirstSubCard ==
    (BothParsed /\ pnow = dnow /\ IsComposite(pin)
     /\ FirstEligibleCarries(pin, pm))
        => pout = dout
\* a record obtained through a composite card whose first item is skipped
C9_Witness ==
    /\ BothParsed
    /\ pnow = dnow
    /\ IsComposite(pin)
    /\ FirstEligibleCarries(pin, pm)
    /\ ~Eligible(Group(pin)[1])
    /\ pout # Null
    /\ pout = dout

\* the cards of the claim: no card_type 9 or 11 (a card that is no
\* dictionary has none), card_type 9 without a non-empty mblog, card_type 11
\* without an eligible sub-card
Malformed(c) ==
    \/ ~IsDict(c)
    \/ /\ ~JEq(Get(c, "card_type", Null), JInt(9))
       /\ ~JEq(Get(c, "card_type", Null), JInt(11))
    \/ /\ JEq(Get(c, "card_type", Null), JInt(9))
       /\ ~Truthy(Get(c, "mblog", EmptyDict))
    \/ /\ JEq(Get(c, "card_type", Null), JInt(11))
       /\ ~(IsComposite(c) /\ \E i \in 1..Len(Group(c)) : Eligible(Group(c)[i]))

\* C10: parse_weibo returns None, and no exception leaves it, for every card
\* that has no card_type 9 or 11, every card of card_type 9 whose mblog is
\* missing or empty, and every card of card_type 11 without a sub-card of
\* card_type 9 that carries a non-empty mblog.
C10_AbsentOnMalformed ==
    (pnow >= 0 /\ Malformed(pin)) => pout = Null
\* a composite card holding an item that is no dictionary was parsed
C10_Witness ==
    /\ pnow >= 0
    /\ IsComposite(pin)
    /\ Malformed(pin)
    /\ \E i \in 1..Len(Group(pin)) : ~IsDict(Group(pin)[i])
    /\ pout = Null

-----------------------------------------------------------------------------
(* parse_mblog on its own, over mblogs built from the values of the fields   *)
(* text, retweeted_status and created_at                                    *)

Absent == [t |-> "absent"]
\* the key k with value x, or no key
Opt(k, x) == IF x = Absent THEN <<>> ELSE (k :> x)

TextValues ==
    {Absent, EmptyStr, S("A"), JStr(<<"A", "\n", "B">>), Null, JInt(5)}
RetweetValues ==
    {Absent, JDict([text |-> S("B")]),
     JDict([text |-> JStr(<<"B", "\n", "C">>)]), EmptyDict, Null}
CreatedAtValues ==
    {Absent, JStr(<<"5", "fenzhongqian">>), JStr(<<"2", "xiaoshiqian">>),
     S("2023-01-02 10:00:00"), S("Mon Jan 02 10:00:00 +0800 2023"),
     S("2023-01-02"), S("zuotian 10:00"), Null, JInt(5),
     JList(<<S("2023-01-02")>>)}
MblogInputs ==
    {JDict(("bid" :> S("b1")) @@ Opt("text", x) @@ Opt("retweeted_status", r)
           @@ Opt("created_at", c)) :
        x \in TextValues, r \in RetweetValues, c \in CreatedAtValues}

MblogInit ==
    /\ FetchIdle
    /\ now = 0
    /\ pin = Null
    /\ pm \in MblogInputs
    /\ pout = Null
    /\ dout = Null
    /\ pnow = -1
    /\ dnow = -1
    /\ mout = Null
    /\ mnow = -1

\* the call self.parse_mblog(mblog) of lines 57 and 62 on pm
ParseMblog ==
    /\ pc = "parser"
    /\ mnow = -1
    /\ mout' = parse_mblog(pm, now)
    /\ mnow' = now
    /\ UNCHANGED <<fetchVars, now, pin, pm, pout, dout, pnow, dnow>>

MblogNext == ParseMblog \/ ParseTick

MblogSpec == MblogInit /\ [][MblogNext]_vars

-----------------------------------------------------------------------------
(* Properties of parse_mblog *)

MblogParsed == mnow >= 0
OwnText(m) == Get(m, "text", EmptyStr)
HasRepost(m) == HasKey(m, "retweeted_status")
\* a string with every newline turned into a space
Spaced(str) == [i \in 1..Len(str) |-> IF str[i] = "\n" THEN " " ELSE str[i]]
\* nothing but text and created_at is in the way of a record: a repost
\* sub-structure, when present, is a dict
RepostUsable(m) == HasRepost(m) => IsDict(m.v["retweeted_status"])

\* C11: every record parse_mblog produces has a string as text; and for an
\* mblog without repost whose text is missing, null or no string, a record
\* is produced whose text is the empty string.
C11_TextNeverNull ==
    MblogParsed =>
        /\ mout # Null => mout.text.t = "str"
        /\ (~HasRepost(pm) /\ (~HasKey(pm, "text") \/ OwnText(pm).t # "str"))
              => mout # Null /\ mout.text = EmptyStr

\* C12: with a repost sub-structure whose text is B and own text A (both
\* strings, a missing one being empty), is_retweet is 1 and the text is A,
\* " // ", B with the newlines of both replaced by spaces; without a repost
\* sub-structure is_retweet is 0 and the text is A alone (newlines replaced
\* likewise, by line 119).
C12_RepostComposition ==
    (MblogParsed /\ OwnText(pm).t = "str") =>
        IF HasRepost(pm)
        THEN (IsDict(pm.v["retweeted_status"])
              /\ OwnText(pm.v["retweeted_status"]).t = "str")
             => /\ mout # Null
                /\ mout.is_retweet = JInt(1)
                /\ mout.text =
                     JStr(Spaced(OwnText(pm).v) \o <<" // ">>
                          \o Spaced(OwnText(pm.v["retweeted_status"]).v))
        ELSE /\ mout # Null
             /\ mout.is_retweet = JInt(0)
             /\ mout.text = JStr(Spaced(OwnText(pm).v))
\* a repost of a two-line post with a two-line comment was parsed
C12_Witness ==
    /\ MblogParsed
    /\ HasRepost(pm)
    /\ mout # Null
    /\ mout.is_retweet = JInt(1)
    /\ mout.text = JStr(<<"A", " ", "B", " // ", "B", " ", "C">>)

RawCreatedAt(m) == Get(m, "created_at", EmptyStr)
IsRelative(raw) ==
    raw.t = "str"
    /\ \E i \in 1..Len(raw.v) : raw.v[i] \in {"fenzhongqian", "xiaoshiqian"}
IsParsable(raw) ==
    raw.t = "str" /\ ~IsRelative(raw) /\ Len(raw.v) = 1
    /\ raw.v[1] \in DOMAIN DateTable

\* C13: whatever created_at is, parse_mblog returns a record (text and repost
\* being usable), and its created_at is a string: the clock of the call for a
\* relative marker, the instant in the fixed format for a parsable string,
\* and else the raw value as a string ('' when missing).
C13_TimestampNeverFails ==
    (MblogParsed /\ RepostUsable(pm)
     /\ (HasRepost(pm) \/ OwnText(pm).t = "str")) =>
        /\ mout # Null
        /\ mout.created_at.t = "str"
        /\ IsRelative(RawCreatedAt(pm))
             => mout.created_at = JStr(ClockText(mnow))
        /\ IsParsable(RawCreatedAt(pm))
             => mout.created_at = JStr(<<DateTable[RawCreatedAt(pm).v[1]]>>)
        /\ (RawCreatedAt(pm).t = "str" /\ ~IsRelative(RawCreatedAt(pm))
            /\ ~IsParsable(RawCreatedAt(pm)))
             => mout.created_at = RawCreatedAt(pm)
        /\ RawCreatedAt(pm).t = "null" => mout.created_at = JStr(<<"None">>)
        /\ RawCreatedAt(pm).t = "int"
             => mout.created_at = JStr(<<ToString(RawCreatedAt(pm).v)>>)

-----------------------------------------------------------------------------
(* Further properties of the fetch loop *)

\* the number of processed pages, counted from the last, that added nothing
RECURSIVE TrailingZeroPages(_)
TrailingZeroPages(h) ==
    IF h = <<>> \/ ~h[Len(h)] THEN 0
    ELSE 1 + TrailingZeroPages(SubSeq(h, 1, Len(h) - 1))
\* the loop was left by the break of line 192
HeuristicStop == Stopped /\ lastOutcome = "cards" /\ ~delayed
\* the head of the loop with a page left: a request is about to be issued
AboutToRequest == pc = "loop" /\ page < page_num

\* C14: the counter is the number of most recent processed pages that added
\* nothing (a page that adds a record sets it to 0), it is 0, 1 or 2 when a
\* request is issued, and the loop is left by the heuristic only when the
\* three most recent processed pages each added nothing.
C14_CounterReset ==
    /\ consecutive_empty = TrailingZeroPages(hist)
    /\ AboutToRequest => consecutive_empty \in 0..(StopAfter - 1)
    /\ HeuristicStop => ThreeZeroPages
\* two empty pages, a productive page, an empty page: the loop goes on
C14_Witness ==
    /\ AboutToRequest
    /\ Len(hist) = 4
    /\ hist[1] /\ hist[2] /\ ~hist[3] /\ hist[4]
    /\ consecutive_empty = 1

\* the longest card list a response of the inputs yields
CardsMax ==
    LET lens == {Len(page_try(r).cards) : r \in Responses} IN
    CHOOSE m \in lens : \A l \in lens : l <= m
\* steps one pass of the loop takes at most: the request, the cards, the end
\* of the page, the delay
PageBudget == CardsMax + 4
PagesLeft == IF page_num > page THEN page_num - page ELSE 0
\* a bound on the steps get_weibo_data has yet to take
Rank ==
    CASE pc = "returned" -> 0
      [] pc = "return" -> 1
      [] pc = "loop" -> 2 + PagesLeft * PageBudget
      [] pc = "sleep" -> 3 + PagesLeft * PageBudget
      [] pc = "cards" -> 4 + PagesLeft * PageBudget + (Len(cards) + 1 - idx)
      [] OTHER -> 0

\* C15: the loop terminates: every step of get_weibo_data lowers a bound on
\* the steps left, which is never negative, and no step ends in an error;
\* the pages requested are 1, 2, 3, ... in order, without gap or repetition,
\* at most page_num of them; with page_num <= 0 nothing is requested and the
\* table returned is empty.
C15_TerminatesSequential ==
    /\ [][fetchVars' # fetchVars => Rank' < Rank]_vars
    /\ [](Rank >= 0 /\ pc # "error" /\ (Rank = 0 <=> pc = "returned"))
    /\ [](requested = [i \in 1..Len(requested) |-> i])
    /\ [](Len(requested) <= IF page_num > 0 THEN page_num ELSE 0)
    /\ [](page_num <= 0 => requested = <<>> /\ all_data = <<>>
                           /\ result = <<>>)
    /\ [][requested' # requested
            => requested' = Append(requested, Len(requested) + 1)]_vars
\* a run that asked for every page, some of which failed, and returned
C15_Witness ==
    /\ pc = "returned"
    /\ page_num >= 3
    /\ requested = [i \in 1..page_num |-> i]
    /\ ~onlyTransient
    /\ Len(hist) < page_num

HasEmptyBid(q) == \E i \in 1..Len(q) : q[i].bid = EmptyStr
\* every card of the page parses to a record with the empty bid
OnlyEmptyBidCards ==
    /\ cards # <<>>
    /\ \A i \in 1..Len(cards) :
         /\ parse_weibo(cards[i], now) # Null
         /\ parse_weibo(cards[i], now).bid = EmptyStr

\* C17: a record whose bid is empty (or missing) is appended when the
\* accumulator holds no empty bid and dropped when it holds one, so at most
\* one record has the empty bid; a page made only of further such records
\* is a page without new post: it raises the counter by one.
C17_EmptyBid ==
    /\ [](\A i, j \in 1..Len(all_data) :
            (all_data[i].bid = EmptyStr /\ all_data[j].bid = EmptyStr)
               => i = j)
    /\ [][(CardStep /\ parse_weibo(cards[idx], now) # Null
           /\ parse_weibo(cards[idx], now).bid = EmptyStr)
            => IF HasEmptyBid(all_data)
               THEN all_data' = all_data /\ new_posts' = new_posts
               ELSE all_data' =
                       Append(all_data, parse_weibo(cards[idx], now))]_vars
    /\ [][(hist' # hist /\ OnlyEmptyBidCards /\ HasEmptyBid(accBefore))
            => /\ hist'[Len(hist')]
               /\ consecutive_empty' = consecutive_empty + 1]_vars
\* a second page of empty-bid posts was counted as a page without new post
C17_Witness ==
    /\ pc = "sleep"
    /\ OnlyEmptyBidCards
    /\ HasEmptyBid(accBefore)
    /\ Len(all_data) >= 2
    /\ hist[Len(hist)]
    /\ consecutive_empty >= 1

\* C18: after a processed page that does not stop the loop the delay of line
\* 196 is next, whether or not the page added a record, and it has been made
\* when the next request is about to be issued.
C18_DelayAfterProcessedPage ==
    /\ (lastOutcome = "cards" /\ pc # "cards" /\ ~HeuristicStop)
          => pc = "sleep" \/ delayed
    /\ (AboutToRequest /\ lastOutcome = "cards") => delayed
\* the delay was made after a page without new post, before a next request
C18_Witness ==
    /\ AboutToRequest
    /\ lastOutcome = "cards"
    /\ hist[Len(hist)]
    /\ all_data # <<>>
    /\ delayed

\* C19: when a request is about to be issued after an earlier one, the delay
\* has been made since that earlier request, whatever its outcome was.
C19_DelayBetweenRequests ==
    (AboutToRequest /\ requested # <<>>) => delayed

-----------------------------------------------------------------------------
(* Further properties of the parser *)

\* the index of the first eligible item of the group of c
FirstEligible(c) ==
    CHOOSE i \in 1..Len(Group(c)) :
        /\ Eligible(Group(c)[i])
        /\ \A j \in 1..(i - 1) : ~Eligible(Group(c)[j])
HasEligible(c) == \E i \in 1..Len(Group(c)) : Eligible(Group(c)[i])

\* C16 as stated: the result for a composite card is the result of
\* parse_mblog on the mblog of the first sub-card of card_type 9 with a
\* non-empty mblog, None when that parse fails, later sub-cards not tried.
C16_FirstEligibleOnly ==
    (pnow >= 0 /\ IsComposite(pin) /\ HasEligible(pin)) =>
        pout = parse_mblog(Group(pin)[FirstEligible(pin)].v["mblog"], pnow)

\* some item before the first eligible sub-card of c is no dictionary
NonDictBeforeFirstEligible(c) ==
    \E j \in 1..(FirstEligible(c) - 1) : ~IsDict(Group(c)[j])

\* C16 (amended): for a composite card with an eligible sub-card, when the
\* items before the first eligible sub-card are all dictionaries the result
\* is the result of parse_mblog on that sub-card's mblog (None when that
\* parse fails, later sub-cards not tried); when one of those items is not
\* a dictionary the result is None.
C16_FirstEligibleAfterDicts ==
    (pnow >= 0 /\ IsComposite(pin) /\ HasEligible(pin)) =>
        /\ ~NonDictBeforeFirstEligible(pin) =>
               pout = parse_mblog(Group(pin)[FirstEligible(pin)].v["mblog"],
                                  pnow)
        /\ NonDictBeforeFirstEligible(pin) => pout = Null
\* an item that is no dictionary comes before an eligible sub-card whose
\* mblog would parse: None
C16_Witness ==
    /\ pnow >= 0
    /\ IsComposite(pin)
    /\ HasEligible(pin)
    /\ NonDictBeforeFirstEligible(pin)
    /\ parse_mblog(Group(pin)[FirstEligible(pin)].v["mblog"], pnow) # Null
    /\ pout = Null
\* the first eligible mblog fails to parse, a later one would parse: None
C16_DelegationFails ==
    /\ pnow >= 0
    /\ IsComposite(pin)
    /\ Len(Group(pin)) >= 2
    /\ Eligible(Group(pin)[1])
    /\ parse_mblog(Group(pin)[1].v["mblog"], pnow) = Null
    /\ Eligible(Group(pin)[2])
    /\ parse_mblog(Group(pin)[2].v["mblog"], pnow) # Null
    /\ pout = Null

====
